---- MODULE Spec2Model ----
(***************************************************************************)
(* Verification model of notion-reading-tracker-helpers:                   *)
(*   import.js            (src/unnamed/part_000)  ISBN / file / Goodreads  *)
(*   update-total-pages.js (src/unnamed/part_001) page-count backfill      *)
(*   update-icons.js      (src/update-icons.js)   icon sync                *)
(* Strings are sequences of one-character strings.                         *)
(***************************************************************************)
EXTENDS Integers, Sequences, FiniteSets, TLC

VARIABLES
    script,        \* which entry point runs: "csv", "icons", "pages", "import"
    pc,            \* position of the running script
    line,          \* parseCSVLine: the argument
    fields,        \* parseCSVLine: the returned array (NoResult before the call)
    force,         \* update-total-pages: options.force
    db,            \* update-total-pages: the Notion database, a sequence of pages of records
    olib,          \* OpenLibrary's answer per ISBN (Unknown until first asked)
    numPages,      \* update-icons: number of pages the database answers with
    noCursorPage,  \* the page answered with has_more = true and next_cursor = null (0: none)
    batch,         \* response.results of the current query
    respMore,      \* response.has_more of the current query
    respNext,      \* response.next_cursor of the current query
    idx,           \* index of the record of batch being processed
    hasMore,       \* let hasMore
    startCursor,   \* let startCursor
    cnt,           \* the run's counters (totalUpdated, totalSkipped, ...)
    calls,         \* start_cursor of every notion.databases.query call, in order
    req,           \* the notion.pages.update request just sent (NoRequest once the wait is over)
    run,           \* update-total-pages: 1 for the first run, 2 for the run after it
    prev,          \* counters of run 1, kept for run 2
    start,         \* update-total-pages: the database as it was when this run started
    throws,        \* number of notion.pages.update calls that threw in this run
    unpaced,       \* a per-record network interaction happened and no pacing wait since
    mode,          \* import: "isbn", "file" or "goodreads"
    input,         \* import: options.isbn, or the lines of the file read
    failedIsbns,   \* import: const failedIsbns
    logFile,       \* import: the failed-isbns-<timestamp>.txt files written, each a sequence of lines
    books,         \* import: booksToProcess (goodreads) or the isbns (file)
    bi,            \* import: index of the item of books being processed
    bookInfo,      \* import: let bookInfo
    netlog         \* import: lookups and creates issued, in order

csvVars  == <<line, fields>>
loopVars == <<force, db, olib, numPages, noCursorPage, batch, respMore, respNext, idx, hasMore,
              startCursor, cnt, calls, req, run, prev, throws, start>>
impVars  == <<mode, input, failedIsbns, logFile, books, bi, bookInfo, netlog>>
vars     == <<script, pc, csvVars, loopVars, impVars, unpaced>>

(***************************************************************************)
(* Bounds of the model                                                     *)
(***************************************************************************)
MaxLineLen == 4
MaxPages   == 2
MaxRecords == 2
MaxBatch   == 1
MaxItems   == 2
\* database queries of one run that are followed
MaxCalls   == 3

Null      == "null"
Undefined == "undefined"
NoResult  == "no-result"
\* no failure-log file written yet
NoFile    == <<>>
\* start_cursor: undefined, and next_cursor: null; the cursor tokens are 1, 2, ...
NoCursor   == 0
NullCursor == -1
\* a number property that is empty
NullNumber == -1
NoRequest  == [page_id |-> <<0, 0>>, value |-> Null]

(***************************************************************************)
(* String helpers                                                          *)
(***************************************************************************)
QUOTE  == "\""
COMMA  == ","
SPACE  == " "
HYPHEN == "-"
EQUALS == "="

\* s.replace(/-/g, '')
RECURSIVE StripHyphens(_)
StripHyphens(s) ==
    IF s = <<>> THEN <<>>
    ELSE IF Head(s) = HYPHEN THEN StripHyphens(Tail(s))
    ELSE <<Head(s)>> \o StripHyphens(Tail(s))

\* s.replace(/[="]/g, '')
RECURSIVE StripEqQuote(_)
StripEqQuote(s) ==
    IF s = <<>> THEN <<>>
    ELSE IF Head(s) \in {EQUALS, QUOTE} THEN StripEqQuote(Tail(s))
    ELSE <<Head(s)>> \o StripEqQuote(Tail(s))

RECURSIVE TrimLeft(_)
TrimLeft(s) ==
    IF s # <<>> /\ Head(s) = SPACE THEN TrimLeft(Tail(s)) ELSE s

RECURSIVE TrimRight(_)
TrimRight(s) ==
    IF s # <<>> /\ s[Len(s)] = SPACE THEN TrimRight(SubSeq(s, 1, Len(s) - 1)) ELSE s

\* s.trim()
Trim(s) == TrimRight(TrimLeft(s))

\* isbn.trim().replace(/-/g, '')
CleanISBN(s) == StripHyphens(Trim(s))

(***************************************************************************)
(* parseCSVLine                                                            *)
(***************************************************************************)
\* one iteration of the for loop: st = [result, current, inQuotes], char = line[i]
CsvStep(st, char) ==
    IF char = QUOTE
    THEN [st EXCEPT !.inQuotes = ~st.inQuotes]
    ELSE IF char = COMMA /\ ~st.inQuotes
    THEN [st EXCEPT !.result = Append(st.result, st.current), !.current = <<>>]
    ELSE [st EXCEPT !.current = Append(st.current, char)]

RECURSIVE CsvScan(_, _, _)
CsvScan(l, i, st) ==
    IF i > Len(l) THEN st ELSE CsvScan(l, i + 1, CsvStep(st, l[i]))

\* mutant: the trailing field is not pushed
parseCSVLineNoTrailing(l) ==
    CsvScan(l, 1, [result |-> <<>>, current |-> <<>>, inQuotes |-> FALSE]).result

parseCSVLine(l) ==
    LET st == CsvScan(l, 1, [result |-> <<>>, current |-> <<>>, inQuotes |-> FALSE])
    IN  Append(st.result, st.current)

\* every sequence over S of length 0..n
RECURSIVE SeqsUpTo(_, _)
SeqsUpTo(S, n) ==
    IF n = 0 THEN {<<>>}
    ELSE LET shorter == SeqsUpTo(S, n - 1)
         IN  shorter \cup {Append(q, x) : q \in {r \in shorter : Len(r) = n - 1}, x \in S}

CsvAlphabet == {"a", COMMA, QUOTE}
Example1 == <<"a", COMMA, QUOTE, "b", COMMA, "c", QUOTE, COMMA, "d">>   \* a,"b,c",d
Example2 == <<"x", COMMA, "y", COMMA>>                                   \* x,y,
CsvLines == SeqsUpTo(CsvAlphabet, MaxLineLen) \cup {Example1, Example2}

(***************************************************************************)
(* Idle values of the variables a script does not use                      *)
(***************************************************************************)
IdleCsv  == line = <<>> /\ fields = NoResult
IdleLoop ==
    /\ force = FALSE /\ db = <<>> /\ olib = <<>> /\ numPages = 0 /\ noCursorPage = 0
    /\ batch = <<>> /\ respMore = FALSE /\ respNext = NullCursor /\ idx = 0
    /\ hasMore = FALSE /\ startCursor = NoCursor /\ cnt = <<>> /\ calls = <<>>
    /\ req = NoRequest /\ run = 0 /\ prev = Null /\ throws = 0 /\ start = <<>>
IdleImp  ==
    /\ mode = Null /\ input = <<>> /\ failedIsbns = <<>> /\ logFile = NoFile
    /\ books = <<>> /\ bi = 0 /\ bookInfo = Null /\ netlog = <<>>

InitCSV ==
    /\ script = "csv" /\ pc = "call"
    /\ line \in CsvLines /\ fields = NoResult
    /\ IdleLoop /\ IdleImp /\ unpaced = FALSE

\* a call of parseCSVLine(line)
CsvParse ==
    /\ script = "csv" /\ pc = "call"
    /\ fields' = parseCSVLine(line)
    /\ pc' = "done"
    /\ UNCHANGED <<script, line, loopVars, impVars, unpaced>>

NextCSV == CsvParse
SpecCSV == InitCSV /\ [][NextCSV]_vars

(***************************************************************************)
(* C10                                                                     *)
(***************************************************************************)
RECURSIVE CountQuotes(_)
CountQuotes(s) ==
    IF s = <<>> THEN 0
    ELSE (IF Head(s) = QUOTE THEN 1 ELSE 0) + CountQuotes(Tail(s))

\* position i of l holds a comma with an even number of quote characters before it
OutsideComma(l, i) == l[i] = COMMA /\ CountQuotes(SubSeq(l, 1, i - 1)) % 2 = 0

RECURSIVE RemoveQuotes(_)
RemoveQuotes(s) ==
    IF s = <<>> THEN <<>>
    ELSE IF Head(s) = QUOTE THEN RemoveQuotes(Tail(s))
    ELSE <<Head(s)>> \o RemoveQuotes(Tail(s))

\* the fields joined by a separator that cannot occur in a line
RECURSIVE JoinWith(_, _)
JoinWith(fs, sep) ==
    IF fs = <<>> THEN <<>>
    ELSE IF Len(fs) = 1 THEN fs[1]
    ELSE fs[1] \o <<sep>> \o JoinWith(Tail(fs), sep)

\* l without its quote characters, every comma outside quotes replaced by sep
MarkSplits(l, sep) ==
    RemoveQuotes([i \in 1..Len(l) |-> IF OutsideComma(l, i) THEN sep ELSE l[i]])

\* C10: for every line, parseCSVLine returns exactly one more field than the line
\* has commas outside quotes; the fields are the text between those commas with
\* every quote character dropped (commas inside quotes kept), the trailing field
\* included; a,"b,c",d gives a / b,c / d and x,y, gives x / y / empty.
C10_ParseCSVLine ==
    (script = "csv" /\ pc = "done") =>
        /\ Len(fields) = 1 + Cardinality({i \in 1..Len(line) : OutsideComma(line, i)})
        /\ JoinWith(fields, "|") = MarkSplits(line, "|")
        /\ (line = Example1 => fields = <<(<<"a">>), <<"b", COMMA, "c">>, (<<"d">>)>>)
        /\ (line = Example2 => fields = <<(<<"x">>), (<<"y">>), <<>>>>)

\* a line with a comma inside quotes, a comma outside quotes and an empty trailing field was parsed
C10_Witness ==
    /\ script = "csv" /\ pc = "done"
    /\ \E i, j \in 1..Len(line) :
          /\ line[i] = COMMA /\ ~OutsideComma(line, i)
          /\ OutsideComma(line, j)
    /\ fields[Len(fields)] = <<>>

(***************************************************************************)
(* The Notion database as the maintenance loops see it                     *)
(***************************************************************************)
\* number of pages the database answers with
NPages == IF script = "pages" THEN Len(db) ELSE numPages

\* the page a query with this start_cursor returns: the first one without a cursor,
\* be it start_cursor: undefined or start_cursor: null (a query may also throw)
PageNo(cursor) == IF cursor \in {NoCursor, NullCursor} THEN 1 ELSE cursor

\* has_more and next_cursor of page k: the cursor of page k + 1 is the token k + 1
HasMoreOf(k)    == k < NPages
NextCursorOf(k) == IF k < NPages /\ k # noCursorPage THEN k + 1 ELSE NullCursor

\* the answers of the database hold a next_cursor whenever they hold has_more = true
WellFormed == noCursorPage = 0

(***************************************************************************)
(* update-icons.js                                                         *)
(***************************************************************************)
OPEN_BOOK  == "U+1F4D6"
BLUE_BOOK  == "U+1F4D8"
GREEN_BOOK == "U+1F4D7"
RED_BOOK   == "U+1F4D5"
BOOKS      == "U+1F4DA"
Glyphs     == {OPEN_BOOK, BLUE_BOOK, GREEN_BOOK, RED_BOOK, BOOKS}

\* const EMOJIS
EMOJIS ==
    [s \in {"Currently Reading", "To Read", "Completed", "DNF"} |->
        CASE s = "Currently Reading" -> OPEN_BOOK
          [] s = "To Read"           -> BLUE_BOOK
          [] s = "Completed"         -> GREEN_BOOK
          [] s = "DNF"               -> RED_BOOK]

\* what Object.prototype gives an object literal for the property name "constructor"
FUNCTION_OBJECT == "function Object"

\* EMOJIS[status]: an own key, else a property inherited from Object.prototype, else undefined
EmojisGet(status) ==
    IF status \in DOMAIN EMOJIS THEN EMOJIS[status]
    ELSE IF status = "constructor" THEN FUNCTION_OBJECT
    ELSE Undefined

\* const expectedEmoji = EMOJIS[status] || BOOKS
ExpectedEmoji(status) ==
    IF EmojisGet(status) # Undefined THEN EmojisGet(status) ELSE BOOKS

\* const currentEmoji = page.icon?.type === 'emoji' ? page.icon.emoji : null
CurrentEmoji(page) == IF page.icon \in Glyphs THEN page.icon ELSE Null

NoStatus     == Undefined
NoIcon       == Null
ExternalIcon == "external"
IconStatuses == {"Currently Reading", "To Read", "Completed", "DNF",
                 "Paused", "constructor", NoStatus}
IconRecords  == [status : IconStatuses, icon : Glyphs \cup {NoIcon, ExternalIcon}]

InitIcons ==
    /\ script = "icons" /\ pc = "query"
    /\ numPages \in 1..MaxPages
    /\ noCursorPage \in 0..(numPages - 1)
    /\ hasMore = TRUE /\ startCursor = NoCursor
    /\ cnt = [updated |-> 0, skipped |-> 0]
    /\ force = FALSE /\ db = <<>> /\ olib = <<>>
    /\ batch = <<>> /\ respMore = FALSE /\ respNext = NullCursor /\ idx = 0
    /\ calls = <<>> /\ req = NoRequest /\ run = 1 /\ prev = Null /\ throws = 0 /\ start = <<>>
    /\ IdleCsv /\ IdleImp /\ unpaced = FALSE

\* hasMore = response.has_more; startCursor = response.next_cursor; while (hasMore)
IconsAdvance ==
    /\ hasMore' = respMore
    /\ startCursor' = respNext
    /\ pc' = IF respMore THEN "query" ELSE "done"

\* the for loop goes to its next record, or ends and the while loop goes on
IconsContinue ==
    IF idx < Len(batch)
    THEN idx' = idx + 1 /\ pc' = "record" /\ UNCHANGED <<batch, hasMore, startCursor>>
    ELSE batch' = <<>> /\ idx' = 0 /\ IconsAdvance

\* await notion.databases.query({ start_cursor: startCursor })
IconsQuery ==
    /\ script = "icons" /\ pc = "query"
    /\ Len(calls) < MaxCalls
    /\ calls' = Append(calls, startCursor)
    /\ \/ \* the query throws: the outer catch ends the run
          /\ pc' = "aborted"
          /\ UNCHANGED <<batch, respMore, respNext, idx, hasMore, startCursor>>
       \/ \E results \in SeqsUpTo(IconRecords, MaxBatch) :
          /\ batch' = results
          /\ respMore' = HasMoreOf(PageNo(startCursor))
          /\ respNext' = NextCursorOf(PageNo(startCursor))
          /\ IF results = <<>>
             THEN /\ idx' = 0
                  /\ hasMore' = respMore'
                  /\ startCursor' = respNext'
                  /\ pc' = IF respMore' THEN "query" ELSE "done"
             ELSE idx' = 1 /\ pc' = "record" /\ UNCHANGED <<hasMore, startCursor>>
    /\ UNCHANGED <<script, csvVars, impVars, force, db, olib, numPages, noCursorPage, cnt, req, run,
                   prev, start, throws, unpaced>>

\* the body of the for loop up to the decision to update
IconsRecord ==
    /\ script = "icons" /\ pc = "record"
    /\ LET page == batch[idx] IN
       IF page.status = NoStatus
       THEN IconsContinue /\ UNCHANGED cnt
       ELSE IF CurrentEmoji(page) = ExpectedEmoji(page.status)
       THEN cnt' = [cnt EXCEPT !.skipped = @ + 1] /\ IconsContinue
       ELSE pc' = "update" /\ UNCHANGED <<cnt, batch, idx, hasMore, startCursor>>
    /\ UNCHANGED <<script, csvVars, impVars, force, db, olib, numPages, noCursorPage, respMore,
                   respNext, calls, req, run, prev, start, throws, unpaced>>

\* try { await notion.pages.update({ page_id, icon }); totalUpdated++ } catch { log }
IconsUpdate ==
    /\ script = "icons" /\ pc = "update"
    /\ req' = [page_id |-> <<PageNo(calls[Len(calls)]), idx>>,
               value |-> ExpectedEmoji(batch[idx].status)]
    /\ unpaced' = TRUE
    /\ \/ cnt' = [cnt EXCEPT !.updated = @ + 1] /\ UNCHANGED throws
       \/ throws' = throws + 1 /\ UNCHANGED cnt
    /\ pc' = "wait"
    /\ UNCHANGED <<script, csvVars, impVars, force, db, olib, numPages, noCursorPage, batch, respMore,
                   respNext, idx, hasMore, startCursor, calls, run, prev, start>>

\* await new Promise(resolve => setTimeout(resolve, 250))
IconsWait ==
    /\ script = "icons" /\ pc = "wait"
    /\ unpaced' = FALSE
    /\ req' = NoRequest
    /\ IconsContinue
    /\ UNCHANGED <<script, csvVars, impVars, force, db, olib, numPages, noCursorPage, respMore,
                   respNext, cnt, calls, run, prev, start, throws>>

NextIcons == IconsQuery \/ IconsRecord \/ IconsUpdate \/ IconsWait
SpecIcons == InitIcons /\ [][NextIcons]_vars

(***************************************************************************)
(* update-total-pages.js                                                   *)
(***************************************************************************)
NoISBN      == Undefined
PageISBNs   == {"i1", "i2"}
OldPages    == 5
NewPages    == 7
\* a record of the database: its ISBN property and its Total Pages property
PageRecords == [isbn : PageISBNs \cup {NoISBN}, pages : {NullNumber, 0, OldPages}]

\* what fetchBookDataFromOpenLibrary(isbn) can do: reject, resolve null, or resolve
\* book data with or without number_of_pages
Unknown      == [kind |-> "unknown", pages |-> NullNumber]
LookupAnswers ==
    {[kind |-> "throw", pages |-> NullNumber], [kind |-> "null", pages |-> NullNumber],
     [kind |-> "data", pages |-> NullNumber], [kind |-> "data", pages |-> NewPages]}

\* JavaScript truthiness of a number property: null, undefined and 0 are falsy
Truthy(n) == n # NullNumber /\ n # 0

RECURSIVE SumSeq(_)
SumSeq(q) == IF q = <<>> THEN 0 ELSE Head(q) + SumSeq(Tail(q))

\* the records rs laid out in pages of the given sizes
RECURSIVE Split(_, _)
Split(rs, sizes) ==
    IF sizes = <<>> THEN <<>>
    ELSE <<SubSeq(rs, 1, Head(sizes))>>
         \o Split(SubSeq(rs, Head(sizes) + 1, Len(rs)), Tail(sizes))

Databases ==
    {Split(rs, sizes) :
        <<rs, sizes>> \in
            {x \in SeqsUpTo(PageRecords, MaxRecords) \X SeqsUpTo(0..MaxBatch, MaxPages) :
                Len(x[2]) >= 1 /\ SumSeq(x[2]) = Len(x[1])}}

ZeroCounters ==
    [updated |-> 0, skipped |-> 0, missingISBN |-> 0, failedFetch |-> 0, forceUpdated |-> 0]
NoPrev == [cnt |-> ZeroCounters, throws |-> 0]

InitPages ==
    /\ script = "pages" /\ pc = "query"
    /\ force \in BOOLEAN
    /\ db \in Databases
    /\ olib = [i \in PageISBNs |-> Unknown]
    /\ numPages = 0
    /\ noCursorPage \in 0..(Len(db) - 1)
    /\ hasMore = TRUE /\ startCursor = NoCursor
    /\ cnt = ZeroCounters
    /\ batch = <<>> /\ respMore = FALSE /\ respNext = NullCursor /\ idx = 0
    /\ calls = <<>> /\ req = NoRequest /\ run = 1 /\ prev = NoPrev /\ throws = 0
    /\ start = db
    /\ IdleCsv /\ IdleImp /\ unpaced = FALSE

\* mutant: the loop stops after the first page whatever has_more says
PagesAdvanceStop ==
    /\ hasMore' = FALSE
    /\ startCursor' = respNext
    /\ pc' = "done"

\* hasMore = response.has_more; startCursor = response.next_cursor; while (hasMore)
PagesAdvance ==
    /\ hasMore' = respMore
    /\ startCursor' = respNext
    /\ pc' = IF respMore THEN "query" ELSE "done"

\* continue, or the end of the for body: the next record, or the end of the page
PagesContinue ==
    IF idx < Len(batch)
    THEN idx' = idx + 1 /\ pc' = "record" /\ UNCHANGED <<batch, hasMore, startCursor>>
    ELSE batch' = <<>> /\ idx' = 0 /\ PagesAdvance

\* await notion.databases.query({ start_cursor: startCursor })
PagesQuery ==
    /\ script = "pages" /\ pc = "query"
    /\ Len(calls) < MaxCalls
    /\ calls' = Append(calls, startCursor)
    /\ \/ \* the query throws: the outer catch ends the run
          /\ pc' = "aborted"
          /\ UNCHANGED <<batch, respMore, respNext, idx, hasMore, startCursor>>
       \/ /\ batch' = db[PageNo(startCursor)]
          /\ respMore' = HasMoreOf(PageNo(startCursor))
          /\ respNext' = NextCursorOf(PageNo(startCursor))
          /\ IF batch' = <<>>
             THEN /\ idx' = 0
                  /\ hasMore' = respMore'
                  /\ startCursor' = respNext'
                  /\ pc' = IF respMore' THEN "query" ELSE "done"
             ELSE idx' = 1 /\ pc' = "record" /\ UNCHANGED <<hasMore, startCursor>>
    /\ UNCHANGED <<script, csvVars, impVars, force, db, olib, numPages, noCursorPage, cnt, req, run,
                   prev, start, throws, unpaced>>

\* mutant: a record that has a page count is not skipped
PagesRecordNoSkip ==
    /\ script = "pages" /\ pc = "record"
    /\ LET page == batch[idx] IN
       IF page.isbn = NoISBN
       THEN cnt' = [cnt EXCEPT !.missingISBN = @ + 1] /\ PagesContinue
       ELSE pc' = "lookup" /\ UNCHANGED <<cnt, batch, idx, hasMore, startCursor>>
    /\ UNCHANGED <<script, csvVars, impVars, force, db, olib, numPages, noCursorPage, respMore,
                   respNext, calls, req, run, prev, start, throws, unpaced>>

\* mutant: the force flag is ignored when a page count is present
PagesRecordNoForce ==
    /\ script = "pages" /\ pc = "record"
    /\ LET page == batch[idx] IN
       IF page.isbn = NoISBN
       THEN cnt' = [cnt EXCEPT !.missingISBN = @ + 1] /\ PagesContinue
       ELSE IF Truthy(page.pages)
       THEN cnt' = [cnt EXCEPT !.skipped = @ + 1] /\ PagesContinue
       ELSE pc' = "lookup" /\ UNCHANGED <<cnt, batch, idx, hasMore, startCursor>>
    /\ UNCHANGED <<script, csvVars, impVars, force, db, olib, numPages, noCursorPage, respMore,
                   respNext, calls, req, run, prev, start, throws, unpaced>>

\* the body of the for loop up to the try block
PagesRecord ==
    /\ script = "pages" /\ pc = "record"
    /\ LET page == batch[idx] IN
       IF page.isbn = NoISBN
       THEN cnt' = [cnt EXCEPT !.missingISBN = @ + 1] /\ PagesContinue
       ELSE IF Truthy(page.pages) /\ ~force
       THEN cnt' = [cnt EXCEPT !.skipped = @ + 1] /\ PagesContinue
       ELSE pc' = "lookup" /\ UNCHANGED <<cnt, batch, idx, hasMore, startCursor>>
    /\ UNCHANGED <<script, csvVars, impVars, force, db, olib, numPages, noCursorPage, respMore,
                   respNext, calls, req, run, prev, start, throws, unpaced>>

\* const bookData = await fetchBookDataFromOpenLibrary(isbn), and the two checks after it
PagesLookup ==
    /\ script = "pages" /\ pc = "lookup"
    /\ LET isbn == batch[idx].isbn IN
       \E answer \in LookupAnswers :
          /\ olib[isbn] \in {Unknown, answer}
          /\ olib' = [olib EXCEPT ![isbn] = answer]
          /\ unpaced' = TRUE
          /\ IF answer.kind = "throw"
             THEN \* catch (error): totalFailedFetch++, then the delay
                  /\ cnt' = [cnt EXCEPT !.failedFetch = @ + 1]
                  /\ pc' = "wait"
                  /\ UNCHANGED <<batch, idx, hasMore, startCursor>>
             ELSE IF answer.kind = "null" \/ ~Truthy(answer.pages)
             THEN \* totalFailedFetch++; continue
                  /\ cnt' = [cnt EXCEPT !.failedFetch = @ + 1]
                  /\ PagesContinue
             ELSE /\ pc' = "update"
                  /\ UNCHANGED <<cnt, batch, idx, hasMore, startCursor>>
    /\ UNCHANGED <<script, csvVars, impVars, force, db, numPages, noCursorPage, respMore,
                   respNext, calls, req, run, prev, start, throws>>

\* await notion.pages.update({ page_id, properties: { 'Total Pages': { number } } })
PagesUpdate ==
    /\ script = "pages" /\ pc = "update"
    /\ LET k == PageNo(calls[Len(calls)])
           numberOfPages == olib[batch[idx].isbn].pages
           currentTotalPages == batch[idx].pages
       IN
       /\ req' = [page_id |-> <<k, idx>>, value |-> numberOfPages]
       /\ unpaced' = TRUE
       /\ \/ /\ db' = [db EXCEPT ![k][idx].pages = numberOfPages]
             /\ IF Truthy(currentTotalPages) /\ force
                THEN cnt' = [cnt EXCEPT !.forceUpdated = @ + 1]
                ELSE cnt' = [cnt EXCEPT !.updated = @ + 1]
             /\ UNCHANGED throws
          \/ \* the update throws: catch (error): totalFailedFetch++
             /\ cnt' = [cnt EXCEPT !.failedFetch = @ + 1]
             /\ throws' = throws + 1
             /\ UNCHANGED db
    /\ pc' = "wait"
    /\ UNCHANGED <<script, csvVars, impVars, force, olib, numPages, noCursorPage, batch, respMore,
                   respNext, idx, hasMore, startCursor, calls, run, prev, start>>

\* await new Promise(resolve => setTimeout(resolve, 500))
PagesWait ==
    /\ script = "pages" /\ pc = "wait"
    /\ unpaced' = FALSE
    /\ req' = NoRequest
    /\ PagesContinue
    /\ UNCHANGED <<script, csvVars, impVars, force, db, olib, numPages, noCursorPage, respMore,
                   respNext, cnt, calls, run, prev, start, throws>>

\* node update-total-pages.js is started a second time, on the database the first run left
PagesRerun ==
    /\ script = "pages" /\ pc = "done" /\ run = 1 /\ ~force
    /\ run' = 2
    /\ prev' = [cnt |-> cnt, throws |-> throws]
    /\ start' = db
    /\ pc' = "query"
    /\ hasMore' = TRUE /\ startCursor' = NoCursor
    /\ cnt' = ZeroCounters
    /\ batch' = <<>> /\ respMore' = FALSE /\ respNext' = NullCursor /\ idx' = 0
    /\ calls' = <<>> /\ req' = NoRequest /\ throws' = 0 /\ unpaced' = FALSE
    /\ UNCHANGED <<script, csvVars, impVars, force, db, olib, numPages, noCursorPage>>

NextPages ==
    PagesQuery \/ PagesRecord \/ PagesLookup \/ PagesUpdate \/ PagesWait \/ PagesRerun
SpecPages == InitPages /\ [][NextPages]_vars

SpecLoops == (InitIcons \/ InitPages) /\ [][NextIcons \/ NextPages]_vars

(***************************************************************************)
(* import.js                                                               *)
(***************************************************************************)
\* JavaScript string literals used by processGoodreadsCSV
ISBN_COL   == <<"I", "S", "B", "N">>
ISBN13_COL == <<"I", "S", "B", "N", "1", "3">>
TITLE_COL  == <<"T", "i", "t", "l", "e">>
UNKNOWN_TITLE == <<"?">>

\* let bookInfo = null, and the record fetchBookInfo returns
NoBook == [found |-> FALSE, isbn |-> <<>>]

\* fetchBookInfo's catch: failedIsbns.push(isbn)  (mutant: nothing is pushed)
PushFailedNothing(list, isbn) == list
PushFailed(list, isbn) == Append(list, isbn)

\* array.indexOf(x), 1-based, 0 for the -1 of JavaScript
IndexOf(arr, x) ==
    IF \E i \in 1..Len(arr) : arr[i] = x
    THEN CHOOSE i \in 1..Len(arr) : arr[i] = x /\ \A j \in 1..(i - 1) : arr[j] # x
    ELSE 0

\* idx !== -1 && values[idx]: the cell is there and is not the empty string
CellPresent(values, i) == i # 0 /\ i <= Len(values) /\ values[i] # <<>>

\* values[idx].replace(/[="]/g, '').trim(), '' turned into null (null is <<>> here)
CellId(values, i) == IF CellPresent(values, i) THEN Trim(StripEqQuote(values[i])) ELSE <<>>

\* mutant: every data row is stored
KeepBookAlways(isbn, isbn13) == TRUE
\* if (isbn13 || isbn) booksToProcess.push(...)
KeepBook(isbn, isbn13) == isbn13 # <<>> \/ isbn # <<>>

\* the loop over lines[1..]: booksToProcess after the lines from i on were looked at
RECURSIVE BooksFrom(_, _, _)
BooksFrom(lines, headers, i) ==
    IF i > Len(lines) THEN <<>>
    ELSE IF Trim(lines[i]) = <<>> THEN BooksFrom(lines, headers, i + 1)
    ELSE LET values == parseCSVLine(lines[i])
             isbn   == CellId(values, IndexOf(headers, ISBN_COL))
             isbn13 == CellId(values, IndexOf(headers, ISBN13_COL))
             title  == IF CellPresent(values, IndexOf(headers, TITLE_COL))
                       THEN Trim(values[IndexOf(headers, TITLE_COL)])
                       ELSE UNKNOWN_TITLE
         IN  (IF KeepBook(isbn, isbn13)
              THEN <<[title |-> title, isbn |-> isbn, isbn13 |-> isbn13, row |-> i]>>
              ELSE <<>>)
             \o BooksFrom(lines, headers, i + 1)

\* --- the inputs ---------------------------------------------------------
SingleInputs == {<<"1", HYPHEN, "2">>, <<SPACE, "3">>, <<"4">>}
FileLines    == {<<>>, <<SPACE>>, <<"1", HYPHEN, "2">>, <<SPACE, "3">>}

\* a Goodreads export: the columns of its header and the cells of its data rows
QuotedTitle == <<QUOTE, "A", COMMA, "B", QUOTE>>          \* "A,B"
EmptyWrapped == <<EQUALS, QUOTE, QUOTE>>                   \* =""
IsbnCells   == {<<>>, EmptyWrapped, <<EQUALS, QUOTE, "1", HYPHEN, "2", QUOTE>>}
Isbn13Cells == {<<>>, EmptyWrapped, <<EQUALS, QUOTE, "9", HYPHEN, "8", QUOTE>>}
BlankRow    == [blank |-> TRUE, title |-> <<>>, isbn |-> <<>>, isbn13 |-> <<>>]
DataRows    == [blank : {FALSE}, title : {QuotedTitle}, isbn : IsbnCells, isbn13 : Isbn13Cells]
Headers     == {<<TITLE_COL, ISBN_COL, ISBN13_COL>>, <<ISBN13_COL, TITLE_COL>>,
                <<ISBN_COL, TITLE_COL>>, <<TITLE_COL>>}
Exports     == [cols : Headers, rows : SeqsUpTo(DataRows \cup {BlankRow}, MaxItems)]

RECURSIVE JoinCells(_)
JoinCells(cells) ==
    IF cells = <<>> THEN <<>>
    ELSE IF Len(cells) = 1 THEN cells[1]
    ELSE cells[1] \o <<COMMA>> \o JoinCells(Tail(cells))

CellOf(row, col) ==
    IF col = ISBN_COL THEN row.isbn ELSE IF col = ISBN13_COL THEN row.isbn13 ELSE row.title

\* the text of the export after fileContent.split('\n')
ExportLines(ex) ==
    <<JoinCells(ex.cols)>>
    \o [i \in 1..Len(ex.rows) |->
          IF ex.rows[i].blank THEN <<SPACE>>
          ELSE JoinCells([c \in 1..Len(ex.cols) |-> CellOf(ex.rows[i], ex.cols[c])])]

\* isbns = fileContent.split('\n').filter(isbn => isbn.trim())
RECURSIVE NonBlank(_)
NonBlank(lines) ==
    IF lines = <<>> THEN <<>>
    ELSE (IF Trim(Head(lines)) # <<>> THEN <<Head(lines)>> ELSE <<>>) \o NonBlank(Tail(lines))

InitImport ==
    /\ script = "import" /\ pc = "start"
    /\ \/ mode = "isbn" /\ input \in SingleInputs
       \/ mode = "file" /\ input \in SeqsUpTo(FileLines, MaxItems)
       \/ mode = "goodreads" /\ input \in Exports
    /\ failedIsbns = <<>> /\ logFile = NoFile
    /\ books = <<>> /\ bi = 0 /\ bookInfo = NoBook /\ netlog = <<>>
    /\ IdleCsv /\ IdleLoop /\ unpaced = FALSE

\* saveFailedIsbns(): the file written when failedIsbns is not empty
\* (fs.writeFile is taken to succeed)
SavedLog == IF failedIsbns # <<>> THEN Append(logFile, failedIsbns) ELSE logFile

Lookup(id, row) == [op |-> "lookup", id |-> id, row |-> row]
Create(id, row) == [op |-> "create", id |-> id, row |-> row]

\* --- processSingleISBN --------------------------------------------------
\* const bookInfo = await fetchBookInfo(cleanISBN)
SingleFetch ==
    /\ script = "import" /\ mode = "isbn" /\ pc = "start"
    /\ LET cleanISBN == CleanISBN(input) IN
       /\ netlog' = Append(netlog, Lookup(cleanISBN, 1))
       /\ unpaced' = TRUE
       /\ \/ /\ bookInfo' = [found |-> TRUE, isbn |-> cleanISBN]
             /\ pc' = "s_create"
             /\ UNCHANGED failedIsbns
          \/ /\ bookInfo' = NoBook
             /\ failedIsbns' = PushFailed(failedIsbns, cleanISBN)
             /\ pc' = "save"
    /\ UNCHANGED <<script, csvVars, loopVars, mode, input, logFile, books, bi>>

\* await addBookToNotion(bookInfo): an error of notion.pages.create is caught inside
SingleCreate ==
    /\ script = "import" /\ pc = "s_create"
    /\ netlog' = Append(netlog, Create(bookInfo.isbn, 1))
    /\ unpaced' = TRUE
    /\ pc' = "done"
    /\ UNCHANGED <<script, csvVars, loopVars, mode, input, failedIsbns, logFile, books,
                   bi, bookInfo>>

\* --- processISBNFile ----------------------------------------------------
\* readFile, split, filter
FileRead ==
    /\ script = "import" /\ mode = "file" /\ pc = "start"
    /\ books' = NonBlank(input)
    /\ bi' = 1
    /\ pc' = IF books' = <<>> THEN "save" ELSE "f_fetch"
    /\ UNCHANGED <<script, csvVars, loopVars, mode, input, failedIsbns, logFile,
                   bookInfo, netlog, unpaced>>

\* const bookInfo = await fetchBookInfo(cleanISBN)
FileFetch ==
    /\ script = "import" /\ pc = "f_fetch"
    /\ LET cleanISBN == CleanISBN(books[bi]) IN
       /\ netlog' = Append(netlog, Lookup(cleanISBN, bi))
       /\ unpaced' = TRUE
       /\ \/ /\ bookInfo' = [found |-> TRUE, isbn |-> cleanISBN]
             /\ pc' = "f_create"
             /\ UNCHANGED failedIsbns
          \/ /\ bookInfo' = NoBook
             /\ failedIsbns' = PushFailed(failedIsbns, cleanISBN)
             /\ pc' = "f_wait"
    /\ UNCHANGED <<script, csvVars, loopVars, mode, input, logFile, books, bi>>

FileCreate ==
    /\ script = "import" /\ pc = "f_create"
    /\ netlog' = Append(netlog, Create(bookInfo.isbn, bi))
    /\ unpaced' = TRUE
    /\ pc' = "f_wait"
    /\ UNCHANGED <<script, csvVars, loopVars, mode, input, failedIsbns, logFile, books,
                   bi, bookInfo>>

\* await new Promise(resolve => setTimeout(resolve, 1000)), then the next isbn
FileWait ==
    /\ script = "import" /\ pc = "f_wait"
    /\ unpaced' = FALSE
    /\ IF bi < Len(books)
       THEN bi' = bi + 1 /\ pc' = "f_fetch"
       ELSE bi' = bi /\ pc' = "save"
    /\ UNCHANGED <<script, csvVars, loopVars, mode, input, failedIsbns, logFile, books,
                   bookInfo, netlog>>

\* --- processGoodreadsCSV ------------------------------------------------
\* where the for loop over booksToProcess starts for this book
BookEntry(book) ==
    IF book.isbn13 # <<>> THEN "g_fetch13"
    ELSE IF book.isbn # <<>> THEN "g_fetch10"
    ELSE "g_wait"

\* else branch of if (bookInfo): if (book.isbn13) push(isbn13) else if (book.isbn) push(isbn)
ElsePush(list, book) ==
    IF book.isbn13 # <<>> THEN Append(list, book.isbn13)
    ELSE IF book.isbn # <<>> THEN Append(list, book.isbn)
    ELSE list

\* readFile, the header, the column indexes, booksToProcess
GoodreadsRead ==
    /\ script = "import" /\ mode = "goodreads" /\ pc = "start"
    /\ LET lines   == ExportLines(input)
           headers == parseCSVLine(lines[1])
       IN
       IF IndexOf(headers, ISBN_COL) = 0 /\ IndexOf(headers, ISBN13_COL) = 0
       THEN \* console.error(...); return
            pc' = "done" /\ UNCHANGED <<books, bi>>
       ELSE /\ books' = BooksFrom(lines, headers, 2)
            /\ bi' = 1
            /\ pc' = IF books' = <<>> THEN "save" ELSE BookEntry(books'[1])
    /\ UNCHANGED <<script, csvVars, loopVars, mode, input, failedIsbns, logFile,
                   bookInfo, netlog, unpaced>>

\* bookInfo = await fetchBookInfo(cleanISBN13), and what follows when no ISBN remains to try
GoodreadsFetch13 ==
    /\ script = "import" /\ pc = "g_fetch13"
    /\ LET book == books[bi]
           cleanISBN13 == CleanISBN(book.isbn13)
       IN
       /\ netlog' = Append(netlog, Lookup(cleanISBN13, book.row))
       /\ unpaced' = TRUE
       /\ \/ /\ bookInfo' = [found |-> TRUE, isbn |-> cleanISBN13]
             /\ pc' = "g_create"
             /\ UNCHANGED failedIsbns
          \/ /\ bookInfo' = NoBook
             /\ IF book.isbn # <<>>
                THEN /\ failedIsbns' = PushFailed(failedIsbns, cleanISBN13)
                     /\ pc' = "g_fetch10"
                ELSE /\ failedIsbns' = ElsePush(PushFailed(failedIsbns, cleanISBN13), book)
                     /\ pc' = "g_wait"
    /\ UNCHANGED <<script, csvVars, loopVars, mode, input, logFile, books, bi>>

\* bookInfo = await fetchBookInfo(cleanISBN), then if (bookInfo) ... else ...
GoodreadsFetch10 ==
    /\ script = "import" /\ pc = "g_fetch10"
    /\ LET book == books[bi]
           cleanISBN == CleanISBN(book.isbn)
       IN
       /\ netlog' = Append(netlog, Lookup(cleanISBN, book.row))
       /\ unpaced' = TRUE
       /\ \/ /\ bookInfo' = [found |-> TRUE, isbn |-> cleanISBN]
             /\ pc' = "g_create"
             /\ UNCHANGED failedIsbns
          \/ /\ bookInfo' = NoBook
             /\ failedIsbns' = ElsePush(PushFailed(failedIsbns, cleanISBN), book)
             /\ pc' = "g_wait"
    /\ UNCHANGED <<script, csvVars, loopVars, mode, input, logFile, books, bi>>

GoodreadsCreate ==
    /\ script = "import" /\ pc = "g_create"
    /\ netlog' = Append(netlog, Create(bookInfo.isbn, books[bi].row))
    /\ unpaced' = TRUE
    /\ pc' = "g_wait"
    /\ UNCHANGED <<script, csvVars, loopVars, mode, input, failedIsbns, logFile, books,
                   bi, bookInfo>>

\* await new Promise(resolve => setTimeout(resolve, 1000)), then the next book
GoodreadsWait ==
    /\ script = "import" /\ pc = "g_wait"
    /\ unpaced' = FALSE
    /\ IF bi < Len(books)
       THEN bi' = bi + 1 /\ bookInfo' = NoBook /\ pc' = BookEntry(books[bi + 1])
       ELSE bi' = bi /\ pc' = "save" /\ UNCHANGED bookInfo
    /\ UNCHANGED <<script, csvVars, loopVars, mode, input, failedIsbns, logFile, books,
                   netlog>>

\* --- the ends of a run --------------------------------------------------
TryPcs == {"start", "s_create", "f_fetch", "f_create", "f_wait",
           "g_fetch13", "g_fetch10", "g_create", "g_wait"}

\* a statement inside the try block throws (readFile first of all): control goes to catch
ImpThrow ==
    /\ script = "import" /\ pc \in TryPcs
    /\ pc' = "catch"
    /\ UNCHANGED <<script, csvVars, loopVars, impVars, unpaced>>

\* await saveFailedIsbns() at the end of the try block
ImpSave ==
    /\ script = "import" /\ pc = "save"
    /\ logFile' = SavedLog
    /\ pc' = "done"
    /\ UNCHANGED <<script, csvVars, loopVars, mode, input, failedIsbns, books, bi,
                   bookInfo, netlog, unpaced>>

\* mutant: the catch block only logs the error
ImpCatchNoSave ==
    /\ script = "import" /\ pc = "catch"
    /\ pc' = "failed"
    /\ UNCHANGED <<script, csvVars, loopVars, impVars, unpaced>>

\* catch (error) { console.error(...); await saveFailedIsbns(); }
ImpCatch ==
    /\ script = "import" /\ pc = "catch"
    /\ logFile' = SavedLog
    /\ pc' = "failed"
    /\ UNCHANGED <<script, csvVars, loopVars, mode, input, failedIsbns, books, bi,
                   bookInfo, netlog, unpaced>>

NextImport ==
    \/ SingleFetch \/ SingleCreate
    \/ FileRead \/ FileFetch \/ FileCreate \/ FileWait
    \/ GoodreadsRead \/ GoodreadsFetch13 \/ GoodreadsFetch10 \/ GoodreadsCreate
    \/ GoodreadsWait
    \/ ImpThrow \/ ImpSave \/ ImpCatch
SpecImport == InitImport /\ [][NextImport]_vars

(***************************************************************************)
(* All three scripts and the parser                                        *)
(***************************************************************************)
Init == InitCSV \/ InitIcons \/ InitPages \/ InitImport
Next == NextCSV \/ NextIcons \/ NextPages \/ NextImport
Spec == Init /\ [][Next]_vars

(***************************************************************************)
(* Claims about the two maintenance loops                                  *)
(***************************************************************************)
InLoop == script \in {"icons", "pages"}

\* the start_cursor of the k-th query of a run over all pages
ExpectedCalls == [k \in 1..NPages |-> IF k = 1 THEN NoCursor ELSE NextCursorOf(k - 1)]

\* C1: in both loops, over a database that answers with N pages of which only the
\* last reports has_more = false (each earlier one with its next_cursor): the first query passes no cursor, each later one the previous
\* page's next_cursor, never more than N queries are issued, and a run that ends
\* normally has issued exactly N.
C1_Pagination ==
    (InLoop /\ WellFormed) =>
        /\ Len(calls) <= NPages
        /\ calls = SubSeq(ExpectedCalls, 1, Len(calls))
        /\ (pc = "done" => Len(calls) = NPages)

\* a run over three pages or two ended normally, in either loop
C1_Witness ==
    /\ InLoop /\ WellFormed /\ pc = "done" /\ NPages >= 2
    /\ Len(calls) = NPages /\ calls[2] = 2

\* the last answer held has_more = true and no next_cursor
CursorMissing == respMore /\ respNext = NullCursor

\* no query with an empty cursor follows the first one, and none is about to
NoEmptyCursorQuery ==
    /\ \A i \in 2..Len(calls) : calls[i] # NullCursor
    /\ (pc = "query" /\ calls # <<>>) => startCursor # NullCursor

\* a run leaves the while loop only after an answer with has_more = false
EndsOnLastPage == pc = "done" => (~hasMore /\ ~respMore)

\* C11: in both loops an answer that reports has_more = true without a next_cursor
\* is a hard error: the loop stops and issues no further query with an empty
\* cursor; and a run leaves the loop normally only after an answer that reports
\* has_more = false.
C11_MissingCursorIsError == InLoop => (NoEmptyCursorQuery /\ EndsOnLastPage)

\* the part that holds: the loop ends normally only on has_more = false
C11_EndsOnLastPage == InLoop => EndsOnLastPage

\* the loop went on after a has_more = true answer without a next_cursor
C11_WentOn ==
    /\ InLoop /\ ~WellFormed /\ Len(calls) >= 2
    /\ calls[Len(calls)] = NullCursor /\ pc = "record"

\* failures the run's counters show
FailuresCounted(c) == IF "failedFetch" \in DOMAIN c THEN c.failedFetch ELSE 0

\* C3: in both loops, when the update request of a record throws, the record is
\* counted as a failure in the run's counters and the loop goes on (to the pacing
\* wait and from there to the next record or page).
C3_UpdateFailureCounted ==
    [][(InLoop /\ pc = "update") =>
          /\ pc' = "wait"
          /\ (throws' = throws + 1 =>
                FailuresCounted(cnt') = FailuresCounted(cnt) + 1)]_vars

\* number of records of database d that satisfy P
Positions(d) == UNION {{<<k, i>> : i \in 1..Len(d[k])} : k \in 1..Len(d)}
CountRecs(d, P(_)) == Cardinality({ki \in Positions(d) : P(d[ki[1]][ki[2]])})

HasPages(r)     == r.isbn # NoISBN /\ Truthy(r.pages)
LacksPages(r)   == r.isbn # NoISBN /\ ~Truthy(r.pages)
LacksISBN(r)    == r.isbn = NoISBN
AnyRecord(r)    == TRUE
HasPageCount(r) == Truthy(r.pages)

SecondRunDone == script = "pages" /\ run = 2 /\ ~force /\ pc = "done"

ForceRunDone == script = "pages" /\ force /\ run = 1 /\ pc = "done"

\* C5 as stated: with the force flag every record that already has a page count is
\* re-fetched, overwritten, and counted as force updated, never as skipped.
C5_Original ==
    ForceRunDone =>
        /\ cnt.skipped = 0
        /\ cnt.forceUpdated = CountRecs(start, HasPageCount)

\* C5 amended: with the force flag no record is counted as skipped; every record
\* with an ISBN and a non-zero page count is looked up again; it is counted as
\* force updated exactly when the lookup gave a page count and the update request
\* succeeded, and then its page count is the fetched one; otherwise it keeps its
\* page count (and is counted as failed fetch).  A record with an ISBN and no or a
\* zero page count that is filled in is counted as updated.
C5_ForceRun ==
    (script = "pages" /\ force /\ run = 1) =>
        /\ cnt.skipped = 0
        /\ pc = "done" =>
              /\ \A k \in 1..Len(db) : \A i \in 1..Len(db[k]) :
                    LET was == start[k][i]  now == db[k][i] IN
                    /\ HasPages(was) => olib[was.isbn] # Unknown
                    /\ now.pages # was.pages =>
                          /\ was.isbn # NoISBN
                          /\ olib[was.isbn].kind = "data"
                          /\ now.pages = olib[was.isbn].pages
                    /\ (HasPages(was) /\ now.pages = was.pages /\ throws = 0) =>
                          ~(olib[was.isbn].kind = "data" /\ Truthy(olib[was.isbn].pages))
              /\ cnt.forceUpdated =
                    Cardinality({ki \in Positions(db) :
                        /\ HasPages(start[ki[1]][ki[2]])
                        /\ db[ki[1]][ki[2]].pages # start[ki[1]][ki[2]].pages})
              /\ cnt.updated =
                    Cardinality({ki \in Positions(db) :
                        /\ LacksPages(start[ki[1]][ki[2]])
                        /\ db[ki[1]][ki[2]].pages # start[ki[1]][ki[2]].pages})
              /\ cnt.missingISBN = CountRecs(start, LacksISBN)

\* a force run ended that overwrote the page count of a record with the fetched one
C5_Witness ==
    /\ ForceRunDone
    /\ cnt.forceUpdated >= 1
    /\ \E k \in 1..Len(db) : \E i \in 1..Len(db[k]) :
          HasPages(start[k][i]) /\ db[k][i].pages = NewPages

(***************************************************************************)
(* Claims about import.js                                                  *)
(***************************************************************************)
RunEnded == script = "import" /\ pc \in {"done", "failed"}

\* C2: in every import mode and however the run ends (normally, or through the
\* catch block after a throw), every identifier appended to failedIsbns has been
\* written, in order, to a failure-log file.
C2_FailedFlushed ==
    RunEnded =>
        (failedIsbns # <<>> => (logFile # <<>> /\ logFile[Len(logFile)] = failedIsbns))

\* a run of several items that ended through the catch block with failures recorded
C2_Witness ==
    /\ script = "import" /\ pc = "failed" /\ mode # "isbn"
    /\ Len(failedIsbns) >= 1 /\ bi >= 2
    /\ logFile = <<failedIsbns>>

\* the book of the loop over booksToProcess has both identifiers and both lookups failed
BothFailed ==
    /\ script = "import" /\ mode = "goodreads" /\ pc = "g_wait"
    /\ ~bookInfo.found
    /\ books[bi].isbn13 # <<>> /\ books[bi].isbn # <<>>

\* C7: a Goodreads row with an ISBN13 and an ISBN whose lookups both fail has put
\* the last-attempted identifier, the ISBN with hyphens stripped, in failedIsbns:
\* the row's entries are the stripped ISBN13, the stripped ISBN, and the ISBN13 as
\* the row gives it.
C7_LastAttemptedLogged ==
    BothFailed =>
        LET n == Len(failedIsbns) IN
        /\ n >= 3
        /\ SubSeq(failedIsbns, n - 2, n) =
              <<CleanISBN(books[bi].isbn13), CleanISBN(books[bi].isbn), books[bi].isbn13>>
        /\ \E i \in 1..n : failedIsbns[i] = netlog[Len(netlog)].id

\* both lookups of a row failed; the ISBN, attempted last, is in failedIsbns
C7_Witness ==
    /\ BothFailed
    /\ netlog[Len(netlog)] = Lookup(<<"1", "2">>, books[bi].row)
    /\ \E i \in 1..Len(failedIsbns) : failedIsbns[i] = <<"1", "2">>

\* a cell holds a value: something other than the ="" wrapper and blanks
HasValue(cell) == \E i \in 1..Len(cell) : cell[i] \notin {EQUALS, QUOTE, SPACE}

\* the identifiers a data row of the export gives under the columns of its header
RowHasId(ex, r) ==
    /\ ~ex.rows[r].blank
    /\ \/ (\E c \in 1..Len(ex.cols) : ex.cols[c] = ISBN_COL) /\ HasValue(ex.rows[r].isbn)
       \/ (\E c \in 1..Len(ex.cols) : ex.cols[c] = ISBN13_COL) /\ HasValue(ex.rows[r].isbn13)

\* a cell's text without the wrapper, and that text without hyphens
RowIds(ex, r) ==
    LET a == Trim(StripEqQuote(ex.rows[r].isbn))
        b == Trim(StripEqQuote(ex.rows[r].isbn13))
    IN  {a, b, StripHyphens(a), StripHyphens(b)} \ {<<>>}

\* C9: in Goodreads mode (row r of the export is line r + 1 of the file) the rows
\* stored in booksToProcess are exactly the data rows that have an ISBN or an ISBN13
\* value, in order; every lookup and create is issued for such a row; and every
\* entry of failedIsbns is an identifier of such a row.
C9_RowsWithoutIdLeftOut ==
    (script = "import" /\ mode = "goodreads" /\ pc # "start") =>
        /\ \A b \in 1..Len(books) :
              books[b].row - 1 \in {r \in 1..Len(input.rows) : RowHasId(input, r)}
        /\ bi >= 1 =>
              \A r \in 1..Len(input.rows) :
                  RowHasId(input, r) => \E b \in 1..Len(books) : books[b].row = r + 1
        /\ \A b \in 1..Len(books) : \A c \in 1..Len(books) : b < c => books[b].row < books[c].row
        /\ \A e \in 1..Len(netlog) :
              netlog[e].row - 1 \in {r \in 1..Len(input.rows) : RowHasId(input, r)}
        /\ \A f \in 1..Len(failedIsbns) :
              \E r \in 1..Len(input.rows) : RowHasId(input, r) /\ failedIsbns[f] \in RowIds(input, r)

\* a run ended over an export with a row that has no identifier and a row that has one
C9_Witness ==
    /\ script = "import" /\ mode = "goodreads" /\ pc = "done"
    /\ \E r \in 1..Len(input.rows) : ~input.rows[r].blank /\ ~RowHasId(input, r)
    /\ Len(books) = 1 /\ Len(netlog) >= 1 /\ failedIsbns # <<>>

(***************************************************************************)
(* Claims about the icon decision and about pacing                         *)
(***************************************************************************)
\* the glyph the icon table gives a status, the fallback glyph for any other status
TableGlyph(status) ==
    CASE status = "Currently Reading" -> OPEN_BOOK
      [] status = "To Read"           -> BLUE_BOOK
      [] status = "Completed"         -> GREEN_BOOK
      [] status = "DNF"               -> RED_BOOK
      [] OTHER                        -> BOOKS

IconDecision(statuses) ==
    /\ (script = "icons" /\ pc = "record" /\ batch[idx].status \in statuses) =>
          IF batch[idx].icon = TableGlyph(batch[idx].status)
          THEN pc' # "update" /\ req' = req /\ cnt'.skipped = cnt.skipped + 1
          ELSE pc' = "update"
    /\ (script = "icons" /\ pc = "update" /\ batch[idx].status \in statuses) =>
          /\ req'.value = TableGlyph(batch[idx].status)
          /\ req'.page_id = <<PageNo(calls[Len(calls)]), idx>>

\* C6: for every record with a status, one of the four of the icon table or any
\* other, updateBookIcons skips the record iff its icon glyph is the table's glyph
\* for the status (the fallback glyph for a status outside the table), and otherwise
\* sends one update that sets the icon to that glyph.
C6_IconDecision == [][IconDecision(IconStatuses \ {NoStatus})]_vars

\* the same for the statuses whose name is not a property of Object.prototype
C6_PlainStatuses == [][IconDecision(IconStatuses \ {NoStatus, "constructor"})]_vars

\* the positions from which the next step is a network request
NetPcs == {"query", "lookup", "update", "s_create", "f_fetch", "f_create",
           "g_fetch13", "g_fetch10", "g_create"}

\* C8: in every script a pacing wait lies between a per-record network interaction
\* (lookup, update or create) and the next network request.
C8_Paced == (script # "csv" /\ pc \in NetPcs) => ~unpaced

\* the same for update-icons.js alone
C8_IconsPaced == (script = "icons" /\ pc \in NetPcs) => ~unpaced

(***************************************************************************)
(* The failure log and the items it names                                  *)
(***************************************************************************)
\* the input items of a run, by the row number the lookups and creates carry
Items ==
    IF mode = "isbn" THEN {1}
    ELSE IF mode = "file" THEN 1..Len(books)
    ELSE {r + 1 : r \in 1..Len(input.rows)}

\* the identifiers of an item, as written and with hyphens stripped
ItemIds(item) ==
    IF mode = "isbn" THEN {CleanISBN(input)}
    ELSE IF mode = "file" THEN {CleanISBN(books[item])}
    ELSE RowIds(input, item - 1)

\* a book record was found for the item and its create request was sent
Resolved(item) ==
    \E e \in 1..Len(netlog) : netlog[e].op = "create" /\ netlog[e].row = item

OnlyUnresolvedLogged ==
    \A f \in 1..Len(failedIsbns) :
        \E item \in Items : failedIsbns[f] \in ItemIds(item) /\ ~Resolved(item)

\* C12: at the end of an import run every identifier in failedIsbns (and so in the
\* failure-log file) belongs to an input item for which no book record was found
\* and no database record was created; a Goodreads row whose ISBN13 lookup fails
\* and whose ISBN lookup succeeds leaves nothing in the failure log.
C12_OnlyUnresolvedLogged == RunEnded => OnlyUnresolvedLogged

\* the same for single-ISBN mode and file mode alone
C12_SingleAndFile == (RunEnded /\ mode # "goodreads") => OnlyUnresolvedLogged

====
